---- MODULE Spec2Model ----
(***************************************************************************)
(* Model of the corteks note hierarchy and AI-processing backend.          *)
(*                                                                         *)
(* The store is the single `notes` table (init.sql + the folder            *)
(* migration).  Hierarchy handlers (routes/folders.ts, routes/notes.ts)    *)
(* are single actions.  The processing handlers (routes/process.ts with    *)
(* services/processor.ts) are split at their awaited store accesses, so    *)
(* that independent requests interleave as they do on the server.          *)
(***************************************************************************)
EXTENDS Integers, Sequences, FiniteSets, TLC

(* ---------------------------- bounds ---------------------------------- *)
MaxItems == 3
MaxReqs == 2
MaxTreeItems == 4
MaxBlocks == 2
MaxLines == 3
MaxFetches == 2

(* ------------------------- program constants --------------------------- *)
maxDepth == 100
MaxNameLen == 255

\* folders enough for a chain longer than the cycle check walks
DeepLen == maxDepth + 2

Ids == 1..MaxItems
\* the ids of the specifications of the hierarchy that make room for one more
TreeIds == 1..MaxTreeItems
Reqs == 1..MaxReqs

\* SQL NULL for uuid columns, and the JS `undefined` of an absent body field
NULL == 0
UNDEF == -1
\* SQL NULL for text columns
NULLSTR == "NULL"

validTypes == {"research", "summarize", "expand", "actionplan"}

(* ------------------------------ names ---------------------------------- *)
\* A name string is abstracted to its leading whitespace count and the
\* length of the rest (which starts and ends with a non-space character).
Str(lead, core) == [tag |-> "str", lead |-> lead, core |-> core]
NullName == [tag |-> "null", lead |-> 0, core |-> 0]
UndefName == [tag |-> "undefined", lead |-> 0, core |-> 0]

\* a trim that leaves the string as it is
NameTrimNone(n) == n

NameTrim(n) == Str(0, n.core)

NameLength(n) == n.lead + n.core

\* JS truthiness of a string-or-undefined value
NameTruthy(n) == n.tag = "str" /\ NameLength(n) > 0

NameInputs ==
  { UndefName, Str(0, 0), Str(1, 0), Str(1, MaxNameLen), Str(0, MaxNameLen + 1) }

(* ---------------------------- documents -------------------------------- *)
\* Tiptap JSON nodes, all of one shape.  Text is a sequence of one-character
\* strings.
Node(type, level, text, content) ==
  [type |-> type, level |-> level, text |-> text, content |-> content]

TextNode(t) == Node("text", 0, t, <<>>)
Paragraph(t) == Node("paragraph", 0, <<>>, <<TextNode(t)>>)
EmptyParagraph == Node("paragraph", 0, <<>>, <<>>)
Heading(l, t) == Node("heading", l, <<>>, <<TextNode(t)>>)
ListItem(t) == Node("listItem", 0, <<>>, <<Paragraph(t)>>)
Doc(blocks) == Node("doc", 0, <<>>, blocks)
NullContent == Node("null", 0, <<>>, <<>>)

Whitespace == {" ", "\n"}
Digits == {"0", "1", "2", "3", "4", "5", "6", "7", "8", "9"}

RECURSIVE TrimLeft(_)
TrimLeft(s) ==
  IF s = <<>> THEN s
  ELSE IF Head(s) \in Whitespace THEN TrimLeft(Tail(s)) ELSE s

RECURSIVE TrimRight(_)
TrimRight(s) ==
  IF s = <<>> THEN s
  ELSE IF s[Len(s)] \in Whitespace THEN TrimRight(SubSeq(s, 1, Len(s) - 1))
       ELSE s

Trim(s) == TrimRight(TrimLeft(s))

RECURSIVE Traverse(_)
RECURSIVE TraverseChildren(_, _)
Traverse(node) ==
  (IF node.text # <<>> THEN node.text ELSE <<>>)
    \o TraverseChildren(node.content, 1)

TraverseChildren(children, i) ==
  IF i > Len(children) THEN <<>>
  ELSE Traverse(children[i])
         \o (IF children[i].type \in {"paragraph", "heading"}
               THEN <<"\n">> ELSE <<>>)
         \o TraverseChildren(children, i + 1)

\* extractTextFromTiptap; a null document makes traverse throw (TypeError)
ExtractThrows(doc) == doc.type = "null"

extractTextFromTiptap(doc) == Trim(Traverse(doc))

(* ------------------------ markdown conversion -------------------------- *)
RECURSIVE SplitFrom(_, _, _)
\* String.split('\n'): `cur` is the line collected so far
SplitFrom(s, i, cur) ==
  IF i > Len(s) THEN <<cur>>
  ELSE IF s[i] = "\n" THEN <<cur>> \o SplitFrom(s, i + 1, <<>>)
       ELSE SplitFrom(s, i + 1, Append(cur, s[i]))

Split(s) == SplitFrom(s, 1, <<>>)

StartsWith(line, prefix) ==
  /\ Len(line) >= Len(prefix)
  /\ SubSeq(line, 1, Len(prefix)) = prefix

Substring(line, n) == SubSeq(line, n + 1, Len(line))

IsBullet(line) == StartsWith(line, <<"-", " ">>) \/ StartsWith(line, <<"*", " ">>)

RECURSIVE DigitRun(_, _)
\* number of leading digit characters of line, counted from position i
DigitRun(line, i) ==
  IF i <= Len(line) /\ line[i] \in Digits THEN 1 + DigitRun(line, i + 1) ELSE 0

\* /^\d+\.\s/.test(line)
IsNumbered(line) ==
  LET d == DigitRun(line, 1) IN
    /\ d >= 1
    /\ Len(line) >= d + 2
    /\ line[d + 1] = "."
    /\ line[d + 2] \in Whitespace

\* line.replace(/^\d+\.\s/, '')
StripNumber(line) == Substring(line, DigitRun(line, 1) + 2)

\* a list that ends after its first line
RunEndFirst(lines, i, numbered) == i + 1

RECURSIVE RunEnd(_, _, _)
\* the inner while loops: first index at or after i whose line is not of the
\* list kind being collected
RunEnd(lines, i, numbered) ==
  IF i <= Len(lines)
     /\ (IF numbered THEN IsNumbered(lines[i]) ELSE IsBullet(lines[i]))
    THEN RunEnd(lines, i + 1, numbered)
    ELSE i

ListItems(lines, from, to, numbered) ==
  [k \in 1..(to - from) |->
     ListItem(IF numbered THEN StripNumber(lines[from + k - 1])
              ELSE Substring(lines[from + k - 1], 2))]

RECURSIVE ConvertLines(_, _)
ConvertLines(lines, i) ==
  IF i > Len(lines) THEN <<>>
  ELSE LET line == lines[i] IN
    IF Trim(line) = <<>> THEN ConvertLines(lines, i + 1)
    ELSE IF StartsWith(line, <<"#", " ">>)
      THEN <<Heading(1, Substring(line, 2))>> \o ConvertLines(lines, i + 1)
    ELSE IF StartsWith(line, <<"#", "#", " ">>)
      THEN <<Heading(2, Substring(line, 3))>> \o ConvertLines(lines, i + 1)
    ELSE IF StartsWith(line, <<"#", "#", "#", " ">>)
      THEN <<Heading(3, Substring(line, 4))>> \o ConvertLines(lines, i + 1)
    ELSE IF IsBullet(line)
      THEN LET j == RunEnd(lines, i, FALSE) IN
        <<Node("bulletList", 0, <<>>, ListItems(lines, i, j, FALSE))>>
          \o ConvertLines(lines, j)
    ELSE IF IsNumbered(line)
      THEN LET j == RunEnd(lines, i, TRUE) IN
        <<Node("orderedList", 0, <<>>, ListItems(lines, i, j, TRUE))>>
          \o ConvertLines(lines, j)
    ELSE <<Paragraph(line)>> \o ConvertLines(lines, i + 1)

markdownToTiptap(markdown) == Doc(ConvertLines(Split(markdown), 1))

(* ------------------------- request inputs ------------------------------ *)
\* documents a client may send as note content
BlankDoc == Doc(<<Paragraph(<<" ">>)>>)
TextDoc == Doc(<<Heading(1, <<"T">>), Paragraph(<<"a">>)>>)
NoteDocs == {BlankDoc, TextDoc}

\* what the text-generation collaborator may answer
LLMReplies ==
  { <<"#", " ", "T", "\n", "-", " ", "a", "\n", "*", " ", "b", "\n", "\n",
      "1", ".", " ", "c", "\n", "p">> }

\* all sequences over S of length at most n
SeqsUpTo(S, n) == UNION { [1..k -> S] : k \in 0..n }

\* documents of headings and paragraphs, as the editor saves them: a heading,
\* plain text, text that opens with a dash, a paragraph left empty
BlockInputs ==
  { Heading(1, <<"T">>), Paragraph(<<"a">>), Paragraph(<<"-", " ", "b">>),
    EmptyParagraph }
DocInputs == { Doc(blocks) : blocks \in SeqsUpTo(BlockInputs, MaxBlocks) }

\* lines of a collaborator's answer: the three headings, both bullets, a
\* numbered line, plain text, a blank line
LineInputs ==
  { <<"#", " ", "T">>, <<"#", "#", " ", "T">>, <<"#", "#", "#", " ", "T">>,
    <<"-", " ", "a">>, <<"*", " ", "b">>, <<"1", ".", " ", "c">>, <<"p">>,
    <<>> }

RECURSIVE Join(_)
\* lines.join('\n'), the inverse of String.split('\n')
Join(lines) ==
  IF lines = <<>> THEN <<>>
  ELSE IF Len(lines) = 1 THEN lines[1]
  ELSE lines[1] \o <<"\n">> \o Join(Tail(lines))

MarkdownInputs == { Join(lines) : lines \in SeqsUpTo(LineInputs, MaxLines) }

\* process types a client may send: two valid ones, an unknown one, none
ProcessTypeInputs == {"research", "summarize", "bogus", NULLSTR}

(* ------------------------------ state ---------------------------------- *)
VARIABLES
  notes,       \* the notes table: id -> row, for the ids that exist
  nextId,      \* the next fresh id (ids are never reused)
  req,         \* in-flight process / retry requests, one handler per slot
  trail,       \* history of the watched note: the requests made on it and the
               \* statuses written to it, in order (<<>>: no history is kept)
  client       \* the browser: the item list it fetched last, its polling
               \* timer, the answers to its fetches still on their way

vars == <<notes, nextId, req, trail, client>>

\* INSERT INTO notes (parent_id, type, item_type, name, content, process_type,
\* status): the columns an INSERT names; error_message defaults to NULL
Row(parent_id, type, item_type, name, content, process_type, status) ==
  [ parent_id |-> parent_id, type |-> type, item_type |-> item_type,
    name |-> name, content |-> content, process_type |-> process_type,
    status |-> status, error_message |-> NULLSTR, created_at |-> 0 ]

\* App on mount: useState<Item[]>([]), no interval set, nothing fetched
NoClient ==
  [ items |-> << >>, interval |-> FALSE, responses |-> {},
    selectedNote |-> NULL, selectedFolder |-> NULL ]

IdleReq ==
  [ pc |-> "idle", op |-> "none", id |-> NULL, processType |-> NULLSTR,
    error |-> NULLSTR, result |-> <<>>, childNoteId |-> NULL,
    parent_id |-> NULL ]

\* the store can take one more row
CanInsert == nextId <= MaxItems

(* ----------------------------- the store ------------------------------- *)
\* the id (gen_random_uuid()) and created_at (NOW()) column defaults: rows are
\* numbered in the order of their creation
InsertRow(st, id, row) == st @@ (id :> [row EXCEPT !.created_at = id])

\* a delete that takes the direct children but not theirs
CascadeOneLevel(st, gone) ==
  gone \cup {i \in DOMAIN st : st[i].parent_id \in gone}

RECURSIVE Cascade(_, _)
\* ON DELETE CASCADE of parent_id: rows referencing a deleted row go too
Cascade(st, gone) ==
  LET refs == {i \in DOMAIN st : i \notin gone /\ st[i].parent_id \in gone} IN
    IF refs = {} THEN gone ELSE Cascade(st, gone \cup refs)

\* DELETE FROM notes WHERE id = $1
DeleteRow(st, id) ==
  LET gone == Cascade(st, {id}) IN
    [i \in DOMAIN st \ gone |-> st[i]]

\* a status update that writes error_message only when it is given one
updateStatusKeepError(st, id, status, errorMessage) ==
  [i \in DOMAIN st |->
     IF i = id
       THEN [st[i] EXCEPT !.status = status,
               !.error_message = IF errorMessage = NULLSTR THEN @ ELSE errorMessage]
       ELSE st[i]]

\* UPDATE notes SET status = $1, error_message = $2 WHERE id = $3
updateStatus(st, id, status, errorMessage) ==
  [i \in DOMAIN st |->
     IF i = id THEN [st[i] EXCEPT !.status = status, !.error_message = errorMessage]
     ELSE st[i]]

\* UPDATE notes SET content = $1 WHERE id = $2
updateContent(st, id, content) ==
  [i \in DOMAIN st |-> IF i = id THEN [st[i] EXCEPT !.content = content] ELSE st[i]]

\* an update that takes the item's children along to the new parent
SetParentAndChildren(st, id, parent_id) ==
  [i \in DOMAIN st |->
     IF i = id \/ st[i].parent_id = id
       THEN [st[i] EXCEPT !.parent_id = parent_id] ELSE st[i]]

\* UPDATE notes SET parent_id = $1 WHERE id = $2
SetParent(st, id, parent_id) ==
  [i \in DOMAIN st |-> IF i = id THEN [st[i] EXCEPT !.parent_id = parent_id] ELSE st[i]]

\* UPDATE notes SET name = $1 WHERE id = $2
SetName(st, id, name) ==
  [i \in DOMAIN st |-> IF i = id THEN [st[i] EXCEPT !.name = name] ELSE st[i]]

(* --------------------------- cycle check ------------------------------- *)
RECURSIVE WalkFailOpen(_, _, _, _)
\* a walk that reports no cycle when it gives up at maxDepth
WalkFailOpen(st, folderId, currentId, depth) ==
  IF /\ currentId # NULL /\ depth < maxDepth
     /\ currentId # folderId
     /\ currentId \in DOMAIN st
    THEN WalkFailOpen(st, folderId, st[currentId].parent_id, depth + 1)
    ELSE currentId # NULL /\ depth < maxDepth /\ currentId = folderId

RECURSIVE Walk(_, _, _, _)
\* the while loop of checkCircularReference and the test that follows it:
\* the loop goes round while it is at an item (currentId set, depth below
\* maxDepth) that is not folderId and whose row exists; it returns true at
\* folderId, and otherwise falls to the test of depth against maxDepth
Walk(st, folderId, currentId, depth) ==
  IF /\ currentId # NULL /\ depth < maxDepth
     /\ currentId # folderId
     /\ currentId \in DOMAIN st
    THEN Walk(st, folderId, st[currentId].parent_id, depth + 1)
    ELSE \/ currentId # NULL /\ depth < maxDepth /\ currentId = folderId
         \/ depth >= maxDepth

\* a cycle check that looks at the proposed parent only, not at its ancestors
checkCircularReferenceOneHop(st, folderId, targetParentId) ==
  targetParentId = folderId

checkCircularReference(st, folderId, targetParentId) ==
  Walk(st, folderId, targetParentId, 0)

(* ---------------------- hierarchy handlers ----------------------------- *)
\* What a handler answers and the table it leaves, as a function of the table
\* it finds and the request.
Answer(status, error, st) == [status |-> status, error |-> error, notes |-> st]

\* a folder create that accepts any existing item as the parent
createFolderAnyParent(st, nid, name, parent_id) ==
  IF ~NameTruthy(name) \/ NameTrim(name) = Str(0, 0)
    THEN Answer(400, "Folder name is required", st)
  ELSE IF NameLength(NameTrim(name)) > MaxNameLen
    THEN Answer(400, "Folder name too long (max 255 characters)", st)
  ELSE IF parent_id # NULL /\ parent_id \notin DOMAIN st
    THEN Answer(404, "Parent folder not found", st)
  ELSE Answer(201, NULLSTR,
         InsertRow(st, nid, Row(parent_id, "user", "folder", NameTrim(name),
                           NullContent, NULLSTR, "complete")))

\* POST /folders
createFolder(st, nid, name, parent_id) ==
  IF ~NameTruthy(name) \/ NameTrim(name) = Str(0, 0)
    THEN Answer(400, "Folder name is required", st)
  ELSE IF NameLength(NameTrim(name)) > MaxNameLen
    THEN Answer(400, "Folder name too long (max 255 characters)", st)
  ELSE IF parent_id # NULL /\ parent_id \notin DOMAIN st
    THEN Answer(404, "Parent folder not found", st)
  ELSE IF parent_id # NULL /\ st[parent_id].item_type # "folder"
    THEN Answer(400, "Parent must be a folder", st)
  ELSE Answer(201, NULLSTR,
         InsertRow(st, nid, Row(parent_id, "user", "folder", NameTrim(name),
                           NullContent, NULLSTR, "complete")))

\* PATCH /folders/:id
updateFolder(st, id, name, parent_id) ==
  IF id \notin DOMAIN st
    THEN Answer(404, "Folder not found", st)
  ELSE IF st[id].item_type # "folder"
    THEN Answer(400, "Item is not a folder", st)
  ELSE IF parent_id # UNDEF /\ parent_id = id
    THEN Answer(400, "Folder cannot be its own parent", st)
  ELSE IF parent_id \notin {UNDEF, NULL} /\ parent_id \notin DOMAIN st
    THEN Answer(404, "Parent folder not found", st)
  ELSE IF parent_id \notin {UNDEF, NULL} /\ st[parent_id].item_type # "folder"
    THEN Answer(400, "Parent must be a folder", st)
  ELSE IF parent_id \notin {UNDEF, NULL} /\ checkCircularReference(st, id, parent_id)
    THEN Answer(400, "Cannot create circular folder structure", st)
  ELSE IF name.tag = "str" /\ NameTrim(name) # Str(0, 0)
          /\ NameLength(NameTrim(name)) > MaxNameLen
    THEN Answer(400, "Folder name too long (max 255 characters)", st)
  ELSE LET setName == name.tag = "str" /\ NameTrim(name) # Str(0, 0)
           setParent == parent_id # UNDEF
           named == IF setName THEN SetName(st, id, NameTrim(name)) ELSE st
       IN IF ~setName /\ ~setParent
            THEN Answer(400, "No updates provided", st)
            ELSE Answer(200, NULLSTR,
                   IF setParent THEN SetParent(named, id, parent_id) ELSE named)

\* the place of an item_type value in the order of strings:
\* 'ai-note' < 'folder' < 'note'
TypeRank(item_type) ==
  CASE item_type = "ai-note" -> 1
    [] item_type = "folder" -> 2
    [] OTHER -> 3

\* ORDER BY item_type DESC, created_at ASC: row i sorts before row j
ContentsBefore(st, i, j) ==
  \/ TypeRank(st[i].item_type) > TypeRank(st[j].item_type)
  \/ /\ TypeRank(st[i].item_type) = TypeRank(st[j].item_type)
     /\ st[i].created_at < st[j].created_at

RECURSIVE OrderRows(_, _)
\* the rows of `rows` in that order
OrderRows(st, rows) ==
  IF rows = {} THEN <<>>
  ELSE LET first == CHOOSE i \in rows : \A j \in rows \ {i} : ContentsBefore(st, i, j)
       IN <<first>> \o OrderRows(st, rows \ {first})

\* GET /folders/:id/contents: the status and the ids of the rows returned
folderContents(st, id) ==
  IF id \notin DOMAIN st
    THEN [status |-> 404, error |-> "Folder not found", rows |-> <<>>]
  ELSE IF st[id].item_type # "folder"
    THEN [status |-> 400, error |-> "Item is not a folder", rows |-> <<>>]
  ELSE [status |-> 200, error |-> NULLSTR,
        rows |-> OrderRows(st, {i \in DOMAIN st : st[i].parent_id = id})]

\* a folder delete that removes the row before it looks at its item_type
deleteFolderEager(st, id) ==
  IF id \notin DOMAIN st
    THEN Answer(404, "Folder not found", st)
  ELSE IF st[id].item_type # "folder"
    THEN Answer(400, "Item is not a folder", DeleteRow(st, id))
  ELSE Answer(204, NULLSTR, DeleteRow(st, id))

\* DELETE /folders/:id
deleteFolder(st, id) ==
  IF id \notin DOMAIN st
    THEN Answer(404, "Folder not found", st)
  ELSE IF st[id].item_type # "folder"
    THEN Answer(400, "Item is not a folder", st)
  ELSE Answer(204, NULLSTR, DeleteRow(st, id))

\* a generic move that runs no cycle check for folders
moveItemUnchecked(st, id, parent_id) ==
  IF id \notin DOMAIN st
    THEN Answer(404, "Item not found", st)
  ELSE IF parent_id # NULL /\ parent_id = id
    THEN Answer(400, "Item cannot be its own parent", st)
  ELSE IF parent_id # NULL /\ parent_id \notin DOMAIN st
    THEN Answer(404, "Target folder not found", st)
  ELSE IF parent_id # NULL /\ st[parent_id].item_type # "folder"
    THEN Answer(400, "Target must be a folder", st)
  ELSE Answer(200, NULLSTR, SetParent(st, id, parent_id))

\* POST /folders/:id/move
moveItem(st, id, parent_id) ==
  IF id \notin DOMAIN st
    THEN Answer(404, "Item not found", st)
  ELSE IF parent_id # NULL /\ parent_id = id
    THEN Answer(400, "Item cannot be its own parent", st)
  ELSE IF parent_id # NULL /\ parent_id \notin DOMAIN st
    THEN Answer(404, "Target folder not found", st)
  ELSE IF parent_id # NULL /\ st[parent_id].item_type # "folder"
    THEN Answer(400, "Target must be a folder", st)
  ELSE IF parent_id # NULL /\ st[id].item_type = "folder"
          /\ checkCircularReference(st, id, parent_id)
    THEN Answer(400, "Cannot create circular folder structure", st)
  ELSE Answer(200, NULLSTR, SetParent(st, id, parent_id))

(* ------------------------- notes handlers ------------------------------ *)
\* POST /notes; `content` NullContent stands for a missing (falsy) content
createNote(st, nid, parent_id, content, type) ==
  IF content = NullContent
    THEN Answer(400, "Content is required", st)
  ELSE IF type \notin {"user", "ai"}
    THEN Answer(400, "Type must be user or ai", st)
  ELSE IF parent_id # NULL /\ parent_id \notin DOMAIN st
    THEN Answer(404, "Parent note not found", st)
  ELSE Answer(201, NULLSTR,
         InsertRow(st, nid, Row(parent_id, type, "note", NullName, content,
                           NULLSTR, "draft")))

\* PATCH /notes/:id
updateNote(st, id, content) ==
  IF content = NullContent
    THEN Answer(400, "Content is required", st)
  ELSE IF id \notin DOMAIN st
    THEN Answer(404, "Note not found", st)
  ELSE Answer(200, NULLSTR, updateContent(st, id, content))

\* DELETE /notes/:id
deleteNote(st, id) ==
  IF id \notin DOMAIN st
    THEN Answer(404, "Note not found", st)
  ELSE Answer(204, NULLSTR, DeleteRow(st, id))

\* A handler runs: the table becomes the one it leaves; an insert takes the
\* next id.
Handle(answer) ==
  /\ answer.status = 201 => CanInsert
  /\ notes' = answer.notes
  /\ nextId' = IF answer.status = 201 THEN nextId + 1 ELSE nextId
  /\ UNCHANGED <<req, trail, client>>

CreateFolder(name, parent_id) == Handle(createFolder(notes, nextId, name, parent_id))

UpdateFolder(id, name, parent_id) == Handle(updateFolder(notes, id, name, parent_id))

DeleteFolder(id) == Handle(deleteFolder(notes, id))

MoveItem(id, parent_id) == Handle(moveItem(notes, id, parent_id))

CreateNote(parent_id, content, type) == Handle(createNote(notes, nextId, parent_id, content, type))

UpdateNote(id, content) == Handle(updateNote(notes, id, content))

DeleteNote(id) == Handle(deleteNote(notes, id))

(* ----------------------- processing handlers --------------------------- *)
\* A handler occupies a slot from its first store write to its response.  A
\* request answered from the first read alone (400, 404, 409) changes nothing
\* and leaves no handler behind.
Check(status, error) == [status |-> status, error |-> error]
Proceed == Check(0, NULLSTR)

\* a trigger that does not validate the process type of the request
processCheckNoValidation(st, id, processType) ==
  IF id \notin DOMAIN st
    THEN Check(404, "Note not found")
  ELSE IF st[id].status = "processing"
    THEN Check(409, "Note is already being processed")
  ELSE Proceed

\* a trigger that does not look at the status it read
processCheckNoConflict(st, id, processType) ==
  IF processType = NULLSTR \/ processType \notin validTypes
    THEN Check(400, "Invalid process type")
  ELSE IF id \notin DOMAIN st
    THEN Check(404, "Note not found")
  ELSE Proceed

\* POST /notes/:id/process up to the status check: validate the process type,
\* read the note, answer 400 / 404 / 409 or go on
processCheck(st, id, processType) ==
  IF processType = NULLSTR \/ processType \notin validTypes
    THEN Check(400, "Invalid process type")
  ELSE IF id \notin DOMAIN st
    THEN Check(404, "Note not found")
  ELSE IF st[id].status = "processing"
    THEN Check(409, "Note is already being processed")
  ELSE Proceed

\* a retry that does not look at the status it read
retryCheckAnyStatus(st, id) ==
  IF id \notin DOMAIN st
    THEN Check(404, "Note not found")
  ELSE IF st[id].process_type = NULLSTR
    THEN Check(400, "No process type found for this note")
  ELSE Proceed

\* POST /notes/:id/retry up to the checks on the note it read
retryCheck(st, id) ==
  IF id \notin DOMAIN st
    THEN Check(404, "Note not found")
  ELSE IF st[id].status # "failed"
    THEN Check(400, "Can only retry failed notes")
  ELSE IF st[id].process_type = NULLSTR
    THEN Check(400, "No process type found for this note")
  ELSE Proceed

\* the note whose history `trail` keeps
Watched == 1

Log(id, event) ==
  trail' = IF trail # <<>> /\ id = Watched THEN Append(trail, event) ELSE trail

\* a new request takes the first free slot
FirstFree(r) == req[r].pc = "idle" /\ \A q \in 1..(r - 1) : req[q].pc # "idle"

ProcessStart(r, id, processType) ==
  /\ FirstFree(r)
  /\ req' = IF processCheck(notes, id, processType) = Proceed
              THEN [req EXCEPT ![r] = [IdleReq EXCEPT !.pc = "mark", !.op = "process",
                                         !.id = id, !.processType = processType]]
              ELSE req
  /\ Log(id, processType)
  /\ UNCHANGED <<notes, nextId, client>>

RetryStart(r, id) ==
  /\ FirstFree(r)
  /\ req' = IF retryCheck(notes, id) = Proceed
              THEN [req EXCEPT ![r] = [IdleReq EXCEPT !.pc = "mark", !.op = "retry",
                                         !.id = id,
                                         !.processType = notes[id].process_type]]
              ELSE req
  /\ Log(id, "retry")
  /\ UNCHANGED <<notes, nextId, client>>

\* both handlers: await noteQueries.updateStatus(id, 'processing', null)
Mark(r) ==
  /\ req[r].pc = "mark"
  /\ notes' = updateStatus(notes, req[r].id, "processing", NULLSTR)
  /\ Log(req[r].id, "processing")
  /\ req' = [req EXCEPT ![r].pc = "fetch"]
  /\ UNCHANGED <<nextId, client>>

\* a processNote that sends whatever text it extracted to the collaborator
FetchAnyText(r) ==
  /\ req[r].pc = "fetch"
  /\ UNCHANGED <<notes, nextId, trail, client>>
  /\ req' = [req EXCEPT ![r].pc = IF req[r].id \in DOMAIN notes THEN "llm" ELSE "fail",
                        ![r].error = IF req[r].id \in DOMAIN notes THEN NULLSTR
                                     ELSE "Note not found"]

\* processNote up to the collaborator call: check the type, read the note,
\* extract its text
Fetch(r) ==
  /\ req[r].pc = "fetch"
  /\ UNCHANGED <<notes, nextId, trail, client>>
  /\ LET id == req[r].id
         Throw(msg) == req' = [req EXCEPT ![r].pc = "fail", ![r].error = msg]
     IN IF req[r].processType \notin validTypes
          THEN Throw("Invalid process type")
        ELSE IF id \notin DOMAIN notes
          THEN Throw("Note not found")
        ELSE IF ExtractThrows(notes[id].content)
          THEN Throw("Cannot read properties of null")
        ELSE IF Trim(extractTextFromTiptap(notes[id].content)) = <<>>
          THEN Throw("Note has no content to process")
        ELSE req' = [req EXCEPT ![r].pc = "llm"]

\* a collaborator failure rethrown as it came, its message possibly empty
LLMErrorBare(r) ==
  /\ req[r].pc = "llm"
  /\ req' = [req EXCEPT ![r].pc = "fail", ![r].error = ""]
  /\ UNCHANGED <<notes, nextId, trail, client>>

\* the collaborator call fails (callClaude rethrows)
LLMError(r) ==
  /\ req[r].pc = "llm"
  /\ req' = [req EXCEPT ![r].pc = "fail", ![r].error = "Claude API error"]
  /\ UNCHANGED <<notes, nextId, trail, client>>

\* the collaborator answers; processNote converts the answer and inserts the
\* child with noteQueries.create.  The insert violates the foreign key when
\* the parent row is gone.
LLMReply(r, markdown) ==
  /\ req[r].pc = "llm"
  /\ UNCHANGED <<trail, client>>
  /\ IF req[r].id \notin DOMAIN notes
       THEN /\ req' = [req EXCEPT ![r].pc = "fail",
                                  ![r].error = "violates foreign key constraint"]
            /\ UNCHANGED <<notes, nextId>>
       ELSE /\ CanInsert
            /\ notes' = InsertRow(notes, nextId,
                 Row(req[r].id, "ai", "note", NullName, markdownToTiptap(markdown),
                     req[r].processType, "complete"))
            /\ nextId' = nextId + 1
            /\ req' = [req EXCEPT ![r].pc = "complete", ![r].result = markdown,
                                  ![r].childNoteId = nextId]

\* await noteQueries.updateStatus(id, 'complete', null); res.json(...)
Complete(r) ==
  /\ req[r].pc = "complete"
  /\ notes' = updateStatus(notes, req[r].id, "complete", NULLSTR)
  /\ Log(req[r].id, "complete")
  /\ req' = [req EXCEPT ![r] = IdleReq]
  /\ UNCHANGED <<nextId, client>>

\* await noteQueries.updateStatus(id, 'complete', null) throws (the store
\* refuses the write): the catch block of the handler takes over
CompleteError(r) ==
  /\ req[r].pc = "complete"
  /\ req' = [req EXCEPT ![r].pc = "fail", ![r].error = "store write failed"]
  /\ UNCHANGED <<notes, nextId, trail, client>>

\* a catch block that answers 500 without writing the status
FailSilent(r) ==
  /\ req[r].pc = "fail"
  /\ req' = [req EXCEPT ![r] = IdleReq]
  /\ UNCHANGED <<notes, nextId, trail, client>>

\* catch (processingError): updateStatus(id, 'failed', message); 500
Fail(r) ==
  /\ req[r].pc = "fail"
  /\ notes' = updateStatus(notes, req[r].id, "failed", req[r].error)
  /\ Log(req[r].id, "failed")
  /\ req' = [req EXCEPT ![r] = IdleReq]
  /\ UNCHANGED <<nextId, client>>

\* a validation that lets an item be moved under any existing item
MoveStartAnyTarget(r, id, parent_id) ==
  /\ FirstFree(r)
  /\ req' = IF moveItem(notes, id, parent_id).error \in {NULLSTR, "Target must be a folder"}
              THEN [req EXCEPT ![r] = [IdleReq EXCEPT !.pc = "update", !.op = "move",
                                         !.id = id, !.parent_id = parent_id]]
              ELSE req
  /\ UNCHANGED <<notes, nextId, trail, client>>

\* POST /folders/:id/move up to its UPDATE: the reads that validate the
\* request, taken as one look at the table; a request they refuse is answered
\* and leaves no handler behind
MoveStart(r, id, parent_id) ==
  /\ FirstFree(r)
  /\ req' = IF moveItem(notes, id, parent_id).status = 200
              THEN [req EXCEPT ![r] = [IdleReq EXCEPT !.pc = "update", !.op = "move",
                                         !.id = id, !.parent_id = parent_id]]
              ELSE req
  /\ UNCHANGED <<notes, nextId, trail, client>>

\* an UPDATE that the foreign key does not guard
MoveWriteUnguarded(r) ==
  /\ req[r].pc = "update"
  /\ notes' = IF req[r].id \in DOMAIN notes
                THEN SetParent(notes, req[r].id, req[r].parent_id) ELSE notes
  /\ req' = [req EXCEPT ![r] = IdleReq]
  /\ UNCHANGED <<nextId, trail, client>>

\* UPDATE notes SET parent_id = $1 WHERE id = $2: no row changes when the
\* item is gone, and the foreign key refuses a parent that is gone (500)
MoveWrite(r) ==
  /\ req[r].pc = "update"
  /\ notes' = IF /\ req[r].id \in DOMAIN notes
                   /\ req[r].parent_id \in {NULL} \cup DOMAIN notes
                THEN SetParent(notes, req[r].id, req[r].parent_id) ELSE notes
  /\ req' = [req EXCEPT ![r] = IdleReq]
  /\ UNCHANGED <<nextId, trail, client>>

\* the server process stops while a handler is between its write of
\* 'processing' and its write of 'complete' or 'failed': every handler in
\* flight is gone, the database keeps its rows
Crash ==
  /\ \E r \in Reqs : req[r].pc \in {"fetch", "llm", "complete", "fail"}
  /\ req' = [r \in Reqs |-> IdleReq]
  /\ UNCHANGED <<notes, nextId, trail, client>>

(* --------------------------- subtree query ----------------------------- *)
RECURSIVE treeFrom(_, _)
\* WITH RECURSIVE tree: the row itself and, joined on parent_id, the rows
\* below it, each with the path of ids from the root and its depth
treeFrom(st, row) ==
  {row} \cup
  UNION { treeFrom(st, [id |-> n, path |-> Append(row.path, n), depth |-> row.depth + 1]) :
            n \in {i \in DOMAIN st : st[i].parent_id = row.id} }

\* the order of two different uuid[] paths: element by element in the order
\* of the uuid values, a proper prefix first.  `uuid` gives the place of each
\* id's random uuid among the uuids.
PathBefore(uuid, p, q) ==
  \E k \in 1..(Len(p) + 1) :
    /\ k <= Len(q)
    /\ \A m \in 1..(k - 1) : p[m] = q[m]
    /\ k > Len(p) \/ uuid[p[k]] < uuid[q[k]]

RECURSIVE OrderByPath(_, _)
\* SELECT * FROM tree ORDER BY path
OrderByPath(uuid, rows) ==
  IF rows = {} THEN <<>>
  ELSE LET first == CHOOSE r \in rows :
                      \A o \in rows \ {r} : PathBefore(uuid, r.path, o.path)
       IN <<first>> \o OrderByPath(uuid, rows \ {first})

\* noteQueries.getTree
getTree(st, rootId, uuid) ==
  OrderByPath(uuid, treeFrom(st, [id |-> rootId, path |-> <<rootId>>, depth |-> 0]))

\* GET /notes/:id/tree
getTreeRoute(st, id, uuid) ==
  IF id \notin DOMAIN st
    THEN [status |-> 404, error |-> "Note not found", rows |-> <<>>]
    ELSE [status |-> 200, error |-> NULLSTR, rows |-> getTree(st, id, uuid)]

(* --------------------------- tree display ------------------------------ *)
RECURSIVE getAll(_)
\* GET /notes: SELECT * FROM notes ORDER BY created_at DESC, as a list of ids
getAll(st) ==
  IF DOMAIN st = {} THEN <<>>
  ELSE LET newest == CHOOSE i \in DOMAIN st :
                       \A j \in DOMAIN st : st[j].created_at <= st[i].created_at
       IN <<newest>> \o getAll([i \in DOMAIN st \ {newest} |-> st[i]])

RECURSIVE itemMapGet(_, _, _)
\* itemMap.get(key) after the grouping loop: the items of the list whose
\* parent_id (or 'root', here NULL) is the key, in the order of the list
itemMapGet(st, items, key) ==
  IF items = <<>> THEN <<>>
  ELSE IF st[Head(items)].parent_id = key
    THEN <<Head(items)>> \o itemMapGet(st, Tail(items), key)
    ELSE itemMapGet(st, Tail(items), key)

\* the comparator of sortItems
compare(st, a, b) ==
  IF st[a].item_type = "folder" /\ st[b].item_type # "folder" THEN -1
  ELSE IF st[a].item_type # "folder" /\ st[b].item_type = "folder" THEN 1
  ELSE st[a].created_at - st[b].created_at

RECURSIVE InsertSorted(_, _, _)
\* x put behind every element of the sorted list that does not compare after it
InsertSorted(st, sorted, x) ==
  IF sorted = <<>> THEN <<x>>
  ELSE IF compare(st, x, Head(sorted)) < 0 THEN <<x>> \o sorted
  ELSE <<Head(sorted)>> \o InsertSorted(st, Tail(sorted), x)

\* a sortItems that leaves the list in the order it came
sortItemsNone(st, items) == items

RECURSIVE sortItems(_, _)
\* Array.prototype.sort with the comparator (a stable sort)
sortItems(st, items) ==
  IF items = <<>> THEN <<>>
  ELSE InsertSorted(st, sortItems(st, SubSeq(items, 1, Len(items) - 1)),
                    items[Len(items)])

RECURSIVE buildNodeWithChildren(_, _, _)
\* the sorted direct children of itemId, each with its own subtree attached
buildNodeWithChildren(st, items, itemId) ==
  LET directChildren == sortItems(st, itemMapGet(st, items, itemId)) IN
    [k \in 1..Len(directChildren) |->
       [id |-> directChildren[k],
        _children |-> buildNodeWithChildren(st, items, directChildren[k])]]

\* buildTree: the root items in order, each as { item, children }
buildTree(st, items) ==
  LET rootItems == sortItems(st, itemMapGet(st, items, NULL)) IN
    [k \in 1..Len(rootItems) |->
       [item |-> [id |-> rootItems[k],
                  _children |-> buildNodeWithChildren(st, items, rootItems[k])],
        children |-> buildNodeWithChildren(st, items, rootItems[k])]]

RECURSIVE Flatten(_)
Flatten(seqs) == IF seqs = <<>> THEN <<>> ELSE Head(seqs) \o Flatten(Tail(seqs))

RECURSIVE NoteTreeItem(_, _, _, _)
\* what a NoteTreeItem puts on the screen while expanded (the initial state):
\* its own row, then a NoteTreeItem for each element of its `children` prop.
\* The nested elements are given no `children` prop, which then defaults to [].
NoteTreeItem(item, children, level, under) ==
  <<[id |-> item.id, level |-> level, under |-> under]>>
    \o Flatten([k \in 1..Len(children) |->
                  NoteTreeItem(children[k], <<>>, level + 1, item.id)])

\* what NoteTree puts on the screen for the flat list `items`
NoteTree(st, items) ==
  LET tree == buildTree(st, items) IN
    Flatten([k \in 1..Len(tree) |-> NoteTreeItem(tree[k].item, tree[k].children, 0, NULL)])

(* ------------------------------ client -------------------------------- *)
\* items.some(item => item.item_type !== 'folder' && status === 'processing')
hasProcessingNotes(items) ==
  \E i \in DOMAIN items :
    items[i].item_type # "folder" /\ items[i].status = "processing"

\* loadItems up to its await: GET /notes is answered from the table as it is
\* now, the answer is on its way.  Answers reach the browser in any order.
loadItems ==
  /\ Cardinality(client.responses) < MaxFetches
  /\ client' = [client EXCEPT !.responses = @ \cup {notes}]
  /\ UNCHANGED <<notes, nextId, req, trail>>

\* loadItems called by the user's doing: on mount, after a create, a delete,
\* a move, a processing request
Reload == loadItems

\* setInterval(loadItems, 2000) fires
Tick == client.interval /\ loadItems

\* the answer arrives: setItems(allItems); the effect that depends on items
\* runs again, its cleanup clears the interval and it sets a new one if the
\* list holds a processing note
LoadReceive(allItems) ==
  /\ allItems \in client.responses
  /\ client' = [client EXCEPT !.items = allItems,
                               !.interval = hasProcessingNotes(allItems),
                               !.responses = @ \ {allItems}]
  /\ UNCHANGED <<notes, nextId, req, trail>>

\* the fetch fails: catch (err) sets the error, the list stays
LoadFail(allItems) ==
  /\ allItems \in client.responses
  /\ client' = [client EXCEPT !.responses = @ \ {allItems}]
  /\ UNCHANGED <<notes, nextId, req, trail>>

\* a handler of the browser that ends with `await loadItems()`: the store
\* becomes st, the list is the answer to the fetch that follows, the
\* selection is as given
Loaded(st, note, folder) ==
  /\ notes' = st
  /\ client' = [client EXCEPT !.items = st, !.interval = hasProcessingNotes(st),
                               !.selectedNote = note, !.selectedFolder = folder]
  /\ UNCHANGED <<req, trail>>

\* handleCreateNote: a note of one empty paragraph inside the selected folder,
\* which becomes the selected note
handleCreateNote ==
  LET a == createNote(notes, nextId, client.selectedFolder,
                      Doc(<<EmptyParagraph>>), "user") IN
    /\ a.status = 201 /\ CanInsert
    /\ nextId' = nextId + 1
    /\ Loaded(a.notes, nextId, NULL)

\* handleCreateFolder: 'New Folder' inside the selected folder
handleCreateFolder ==
  LET a == createFolder(notes, nextId, Str(0, 10), client.selectedFolder) IN
    /\ a.status = 201 /\ CanInsert
    /\ nextId' = nextId + 1
    /\ Loaded(a.notes, client.selectedNote, client.selectedFolder)

\* handleSelectItem: a click on an item of the list
handleSelectItem(id) ==
  /\ id \in DOMAIN client.items
  /\ LET items == client.items
         parent == items[id].parent_id
     IN client' =
          IF items[id].item_type = "folder"
            THEN [client EXCEPT !.selectedFolder = id, !.selectedNote = NULL]
          ELSE IF items[id].item_type # "note" /\ parent \in DOMAIN items
                  /\ items[parent].item_type # "folder"
            THEN [client EXCEPT !.selectedFolder = NULL, !.selectedNote = parent]
          ELSE [client EXCEPT !.selectedFolder = NULL, !.selectedNote = id]
  /\ UNCHANGED <<notes, nextId, req, trail>>

\* handleDeleteItem: the delete button of an item of the list
handleDeleteItem(id) ==
  /\ id \in DOMAIN client.items
  /\ UNCHANGED nextId
  /\ IF client.items[id].item_type = "folder"
       THEN LET a == deleteFolder(notes, id) IN
              /\ a.status = 204
              /\ Loaded(a.notes, client.selectedNote,
                        IF client.selectedFolder = id THEN NULL
                        ELSE client.selectedFolder)
       ELSE LET a == deleteNote(notes, id) IN
              /\ a.status = 204
              /\ Loaded(a.notes,
                        IF client.selectedNote = id THEN NULL ELSE client.selectedNote,
                        client.selectedFolder)

(* --------------------------- specification ----------------------------- *)
ParentInputs == {NULL} \cup Ids
TypeInputs == {"user", "bot"}

Init ==
  /\ notes = << >>
  /\ nextId = 1
  /\ req = [r \in Reqs |-> IdleReq]
  /\ trail = <<>>
  /\ client = NoClient

\* no request is being served
Quiet == \A r \in Reqs : req[r].pc = "idle"

\* Requests served one at a time: every handler, a processing run included,
\* runs from its first store access to its response before the next starts.
Next ==
  \/ /\ Quiet
     /\ \E name \in NameInputs, parent_id \in ParentInputs : CreateFolder(name, parent_id)
  \/ /\ Quiet
     /\ \E id \in Ids, name \in NameInputs, parent_id \in ParentInputs \cup {UNDEF} :
          UpdateFolder(id, name, parent_id)
  \/ Quiet /\ \E id \in Ids : DeleteFolder(id)
  \/ Quiet /\ \E id \in Ids, parent_id \in ParentInputs : MoveItem(id, parent_id)
  \/ /\ Quiet
     /\ \E parent_id \in ParentInputs, content \in {TextDoc, NullContent},
           type \in TypeInputs :
          CreateNote(parent_id, content, type)
  \/ Quiet /\ \E id \in Ids : DeleteNote(id)
  \/ \E id \in Ids, processType \in {"research", "bogus"} : ProcessStart(1, id, processType)
  \/ \E id \in Ids : RetryStart(1, id)
  \/ Mark(1)
  \/ Fetch(1)
  \/ LLMError(1)
  \/ \E markdown \in LLMReplies : LLMReply(1, markdown)
  \/ Complete(1)
  \/ Fail(1)

Spec == Init /\ [][Next]_vars

\* Handlers interleaving at their awaits: concurrent processing requests
\* against creation, editing and deletion of root notes.
NextProc ==
  \/ \E content \in NoteDocs \cup {NullContent} : CreateNote(NULL, content, "user")
  \/ \E id \in Ids : DeleteNote(id)
  \/ \E r \in Reqs, id \in Ids, processType \in ProcessTypeInputs :
       ProcessStart(r, id, processType)
  \/ \E r \in Reqs, id \in Ids : RetryStart(r, id)
  \/ \E r \in Reqs : Mark(r)
  \/ \E r \in Reqs : Fetch(r)
  \/ \E r \in Reqs : LLMError(r)
  \/ \E r \in Reqs, markdown \in LLMReplies : LLMReply(r, markdown)
  \/ \E r \in Reqs : Complete(r)
  \/ \E r \in Reqs : Fail(r)

SpecProc == Init /\ [][NextProc]_vars

\* Moves, creations, deletions and processing runs as independent handlers
\* that interleave at the store.
NextRace ==
  \/ \E parent_id \in ParentInputs : CreateFolder(Str(0, 1), parent_id)
  \/ \E parent_id \in ParentInputs : CreateNote(parent_id, TextDoc, "user")
  \/ \E id \in Ids : DeleteFolder(id)
  \/ \E id \in Ids : DeleteNote(id)
  \/ \E r \in Reqs, id \in Ids, parent_id \in ParentInputs : MoveStart(r, id, parent_id)
  \/ \E r \in Reqs : MoveWrite(r)
  \/ \E r \in Reqs, id \in Ids : ProcessStart(r, id, "research")
  \/ \E r \in Reqs : Mark(r)
  \/ \E r \in Reqs : Fetch(r)
  \/ \E r \in Reqs : LLMError(r)
  \/ \E r \in Reqs, markdown \in LLMReplies : LLMReply(r, markdown)
  \/ \E r \in Reqs : Complete(r)
  \/ \E r \in Reqs : Fail(r)

SpecRace == Init /\ [][NextRace]_vars

\* The same handlers on a server that may stop and start again
NextCrash ==
  \/ NextProc
  \/ Crash

SpecCrash == Init /\ [][NextCrash]_vars

\* One fresh note, processed once and then retried once, its history kept
OnceDocs == NoteDocs \cup {Doc(<<>>), Doc(<<EmptyParagraph>>)}

InitOnce ==
  /\ \E content \in OnceDocs, type \in {"user", "ai"} :
       notes = createNote(<< >>, 1, NULL, content, type).notes
  /\ nextId = 2
  /\ req = [r \in Reqs |-> IdleReq]
  /\ trail = <<"draft">>
  /\ client = NoClient

Requested(event) == \E k \in 1..Len(trail) : trail[k] = event
Triggered == \E t \in validTypes : Requested(t)

NextOnce ==
  \/ ~Triggered /\ \E processType \in validTypes : ProcessStart(1, Watched, processType)
  \/ Triggered /\ Quiet /\ ~Requested("retry") /\ RetryStart(1, Watched)
  \/ Mark(1)
  \/ Fetch(1)
  \/ LLMError(1)
  \/ \E markdown \in LLMReplies : LLMReply(1, markdown)
  \/ Complete(1)
  \/ Fail(1)

SpecOnce == InitOnce /\ [][NextOnce]_vars

\* One note of any document, processed once; the collaborator answers with any
\* markdown or with the very text it was sent.
InitText ==
  /\ \E content \in DocInputs : notes = createNote(<< >>, 1, NULL, content, "user").notes
  /\ nextId = 2
  /\ req = [r \in Reqs |-> IdleReq]
  /\ trail = <<"draft">>
  /\ client = NoClient

NextText ==
  \/ ~Triggered /\ ProcessStart(1, Watched, "summarize")
  \/ Mark(1)
  \/ Fetch(1)
  \/ LLMError(1)
  \/ \E markdown \in MarkdownInputs \cup {extractTextFromTiptap(notes[Watched].content)} :
       LLMReply(1, markdown)
  \/ Complete(1)
  \/ Fail(1)

SpecText == InitText /\ [][NextText]_vars

\* One note processed once and retried once, watched by a browser.  The
\* handler goes on once started, the timer fires while it is set, and of the
\* fetches that keep being made one gets through.
NextClient ==
  \/ NextOnce
  \/ Reload
  \/ Tick
  \/ \E allItems \in client.responses : LoadReceive(allItems)
  \/ \E allItems \in client.responses : LoadFail(allItems)

SpecClient ==
  /\ InitOnce /\ [][NextClient]_vars
  /\ WF_vars(\/ Mark(1) \/ Fetch(1) \/ LLMError(1)
             \/ \E markdown \in LLMReplies : LLMReply(1, markdown)
             \/ Complete(1) \/ Fail(1))
  /\ WF_vars(Tick)
  /\ SF_vars(\E allItems \in client.responses : LoadReceive(allItems))

\* The browser alone at work: it creates, selects and deletes.
NextSelect ==
  \/ handleCreateNote
  \/ handleCreateFolder
  \/ \E id \in Ids : handleSelectItem(id)
  \/ \E id \in Ids : handleDeleteItem(id)

SpecSelect == Init /\ [][NextSelect]_vars

\* One note processed once and retried once on a store whose write of
\* 'complete' may fail.
NextFaulty ==
  \/ NextOnce
  \/ CompleteError(1)

SpecFaulty == InitOnce /\ [][NextFaulty]_vars

\* The hierarchy alone: folders and notes created, renamed, moved and deleted,
\* no processing.
NextTree ==
  \/ \E name \in NameInputs, parent_id \in ParentInputs : CreateFolder(name, parent_id)
  \/ \E id \in Ids, name \in NameInputs, parent_id \in ParentInputs \cup {UNDEF} :
       UpdateFolder(id, name, parent_id)
  \/ \E id \in Ids : DeleteFolder(id)
  \/ \E id \in Ids, parent_id \in ParentInputs : MoveItem(id, parent_id)
  \/ \E parent_id \in ParentInputs, content \in {TextDoc, NullContent}, type \in TypeInputs :
       CreateNote(parent_id, content, type)
  \/ \E id \in Ids : DeleteNote(id)

SpecTree == Init /\ [][NextTree]_vars

\* The hierarchy alone again, with room for MaxTreeItems items.
HandleTree(answer) ==
  /\ answer.status = 201 => nextId <= MaxTreeItems
  /\ notes' = answer.notes
  /\ nextId' = IF answer.status = 201 THEN nextId + 1 ELSE nextId
  /\ UNCHANGED <<req, trail, client>>

TreeParentInputs == {NULL} \cup TreeIds

NextWide ==
  \/ \E name \in NameInputs, parent_id \in TreeParentInputs :
       HandleTree(createFolder(notes, nextId, name, parent_id))
  \/ \E id \in TreeIds, name \in NameInputs, parent_id \in TreeParentInputs \cup {UNDEF} :
       HandleTree(updateFolder(notes, id, name, parent_id))
  \/ \E id \in TreeIds : HandleTree(deleteFolder(notes, id))
  \/ \E id \in TreeIds, parent_id \in TreeParentInputs :
       HandleTree(moveItem(notes, id, parent_id))
  \/ \E parent_id \in TreeParentInputs, content \in {TextDoc, NullContent},
        type \in TypeInputs :
       HandleTree(createNote(notes, nextId, parent_id, content, type))
  \/ \E id \in TreeIds : HandleTree(deleteNote(notes, id))

SpecWide == Init /\ [][NextWide]_vars

\* A chain of folders, each created inside the one before, with its two ends
\* moved about.
HandleDeep(answer) ==
  /\ answer.status = 201 => nextId <= DeepLen
  /\ notes' = answer.notes
  /\ nextId' = IF answer.status = 201 THEN nextId + 1 ELSE nextId
  /\ UNCHANGED <<req, trail, client>>

DeepIds == {1, 2, DeepLen - 1, DeepLen}

NextDeep ==
  \/ HandleDeep(createFolder(notes, nextId, Str(0, 1), nextId - 1))
  \/ \E id \in DeepIds, parent_id \in {NULL} \cup DeepIds :
       HandleDeep(moveItem(notes, id, parent_id))
  \/ \E id \in DeepIds, parent_id \in {NULL} \cup DeepIds :
       HandleDeep(updateFolder(notes, id, UndefName, parent_id))

SpecDeep == Init /\ [][NextDeep]_vars

\* The notes router and the processing handlers addressed to any item id,
\* folders included, one request at a time.
NextAnyItem ==
  \/ Quiet /\ \E name \in NameInputs : CreateFolder(name, NULL)
  \/ Quiet /\ CreateNote(NULL, TextDoc, "user")
  \/ /\ Quiet
     /\ \E id \in Ids, content \in NoteDocs \cup {NullContent} : UpdateNote(id, content)
  \/ Quiet /\ \E id \in Ids : DeleteNote(id)
  \/ \E id \in Ids, processType \in ProcessTypeInputs : ProcessStart(1, id, processType)
  \/ \E id \in Ids : RetryStart(1, id)
  \/ Mark(1)
  \/ Fetch(1)
  \/ LLMError(1)
  \/ \E markdown \in LLMReplies : LLMReply(1, markdown)
  \/ Complete(1)
  \/ Fail(1)

SpecAnyItem == Init /\ [][NextAnyItem]_vars

(* ============================== claims ================================= *)
RECURSIVE Revisits(_, _, _)
\* following parent_id from `cur`, having been through `path`, comes back to
\* an item of `path`
Revisits(st, cur, path) ==
  IF cur = NULL \/ cur \notin DOMAIN st THEN FALSE
  ELSE IF cur \in path THEN TRUE
  ELSE Revisits(st, st[cur].parent_id, path \cup {cur})

RECURSIVE AncestorsFrom(_, _, _)
AncestorsFrom(st, cur, acc) ==
  IF cur = NULL \/ cur \notin DOMAIN st \/ cur \in acc THEN acc
  ELSE AncestorsFrom(st, st[cur].parent_id, acc \cup {cur})

\* the items on the ancestor chain of i
Ancestors(st, i) == AncestorsFrom(st, st[i].parent_id, {})

Descendants(st, x) == {i \in DOMAIN st : x \in Ancestors(st, i)}

Folders(st) == {i \in DOMAIN st : st[i].item_type = "folder"}

\* C1: in every state reached by handlers run one at a time (create, rename /
\* move, generic move, delete, processing), following parent_id from any item
\* never comes back to an item already on the path.
C1_Forest == \A i \in DOMAIN notes : ~Revisits(notes, notes[i].parent_id, {i})

\* a folder that has been moved under a younger folder, beside a note that a
\* processing run has marked failed
C1_Witness ==
  \E i, j \in Folders(notes) :
    /\ notes[i].parent_id = j /\ j > i
    /\ \E n \in DOMAIN notes : notes[n].item_type = "note" /\ notes[n].status = "failed"

Rejected(answer, st) == answer.status = 400 /\ answer.notes = st

NoDangling(st) ==
  \A i \in DOMAIN st : st[i].parent_id # NULL => st[i].parent_id \in DOMAIN st

CascadeComplete(st, x, after) ==
  /\ DOMAIN after = DOMAIN st \ ({x} \cup Descendants(st, x))
  /\ \A i \in DOMAIN after : after[i] = st[i]
  /\ NoDangling(after)

\* C3: a successful DELETE of item x, on /notes/:id or on /folders/:id, leaves
\* exactly the rows that are neither x nor have x on their ancestor chain,
\* each as it was, and none of them references a removed row.
C3_CascadeComplete ==
  \A x \in DOMAIN notes :
    /\ deleteNote(notes, x).status = 204
    /\ CascadeComplete(notes, x, deleteNote(notes, x).notes)
    /\ x \in Folders(notes) =>
         /\ deleteFolder(notes, x).status = 204
         /\ CascadeComplete(notes, x, deleteFolder(notes, x).notes)

\* a folder holding a folder holding a note, beside nothing else: deleting the
\* outer folder empties the table
C3_Witness ==
  \E x, y, z \in DOMAIN notes :
    /\ notes[y].parent_id = x /\ notes[z].parent_id = y
    /\ x \in Folders(notes)
    /\ deleteFolder(notes, x).notes = << >>

\* C4: of two POST /notes/:id/process requests on the same note whose handling
\* overlaps, exactly one is answered 409 and exactly one child results: the two
\* are never both past the status check, and never both hold a child.
C4_ExactlyOneRun ==
  \A r1, r2 \in Reqs :
    (r1 # r2 /\ req[r1].op = "process" /\ req[r2].op = "process"
       /\ req[r1].id = req[r2].id)
    => /\ ~(req[r1].pc # "idle" /\ req[r2].pc # "idle")
       /\ ~(req[r1].childNoteId # NULL /\ req[r2].childNoteId # NULL)

\* C5: a successful run on note N with type K adds exactly one row, with
\* item_type ai-note, parent_id N, process_type K and status complete, and
\* leaves N with status complete.
C5_ChildOfRun ==
  [][\A r \in Reqs :
       /\ (req[r].pc = "llm" /\ req'[r].pc = "complete") =>
            LET c == req'[r].childNoteId IN
              /\ c \notin DOMAIN notes
              /\ DOMAIN notes' = DOMAIN notes \cup {c}
              /\ notes'[c].item_type = "ai-note"
              /\ notes'[c].parent_id = req[r].id
              /\ notes'[c].process_type = req[r].processType
              /\ notes'[c].status = "complete"
       /\ (req[r].pc = "complete" /\ req'[r].pc = "idle"
             /\ req[r].id \in DOMAIN notes') =>
            notes'[req[r].id].status = "complete"]_vars

\* the handlers that have marked item i and not yet answered
Serving(i) ==
  {r \in Reqs : req[r].id = i /\ req[r].pc \in {"fetch", "llm", "complete", "fail"}}

IsStatus(e) == e \in {"draft", "processing", "complete", "failed"}
Statuses == SelectSeq(trail, IsStatus)
IsPrefix(a, b) == Len(a) <= Len(b) /\ SubSeq(b, 1, Len(a)) = a
FirstSucceeds == <<"draft", "processing", "complete">>
RetrySucceeds == <<"draft", "processing", "failed", "processing", "complete">>

\* C7: the statuses of a fresh note that is processed once and then retried
\* once run along draft, processing, complete or along draft, processing,
\* failed, processing, complete, and once both requests are answered the
\* sequence is one of the two.
C7_StatusSequences ==
  /\ IsPrefix(Statuses, FirstSucceeds) \/ IsPrefix(Statuses, RetrySucceeds)
  /\ (Quiet /\ Requested("retry")) => Statuses \in {FirstSucceeds, RetrySucceeds}

\* the process type of the run recorded in the trail
RunType == trail[2]

\* C8: once a run of type K has left the note failed, a retry is accepted
\* and runs with K, the note's stored process_type.
C8_RetryReruns ==
  (Watched \in DOMAIN notes /\ notes[Watched].status = "failed") =>
    /\ retryCheck(notes, Watched) = Proceed
    /\ notes[Watched].process_type = RunType

\* C9: a retry of a note in status draft, processing or complete is answered
\* 400, and that request changes nothing: no status, no error, no row, no
\* handler.
C9_RetryRejected ==
  [][\A i \in DOMAIN notes :
       notes[i].status \in {"draft", "processing", "complete"} =>
         /\ retryCheck(notes, i) = Check(400, "Can only retry failed notes")
         /\ \A r \in Reqs : RetryStart(r, i) => UNCHANGED vars]_vars

\* notes in status draft, processing and complete at once, each refused a
\* retry
C9_Witness ==
  \E i, j, k \in DOMAIN notes :
    /\ notes[i].status = "draft" /\ retryCheck(notes, i).status = 400
    /\ notes[j].status = "processing" /\ retryCheck(notes, j).status = 400
    /\ notes[k].status = "complete" /\ notes[k].process_type # NULLSTR
    /\ retryCheck(notes, k).status = 400

\* C10: a trigger on a note in status processing is answered 409 and changes
\* nothing; a trigger on a note in status draft, complete or failed is
\* accepted, its handler goes on to mark the note, and the mark leaves the note
\* in status processing with no error.
C10_TriggerConflict ==
  [][/\ \A i \in DOMAIN notes, k \in validTypes :
          IF notes[i].status = "processing"
            THEN /\ processCheck(notes, i, k).status = 409
                 /\ \A r \in Reqs : ProcessStart(r, i, k) => UNCHANGED vars
            ELSE /\ processCheck(notes, i, k) = Proceed
                 /\ \A r \in Reqs : ProcessStart(r, i, k) =>
                      req'[r].pc = "mark" /\ req'[r].id = i /\ notes' = notes
     /\ \A r \in Reqs :
          (req[r].pc = "mark" /\ req'[r].pc = "fetch"
             /\ req[r].id \in DOMAIN notes) =>
            /\ notes'[req[r].id].status = "processing"
            /\ notes'[req[r].id].error_message = NULLSTR]_vars

\* a failed note marked processing again by an accepted trigger and refused a
\* second one, beside a note still in draft
C10_Witness ==
  \E i, j \in DOMAIN notes :
    /\ notes[i].status = "processing" /\ Serving(i) # {}
    /\ \A k \in validTypes : processCheck(notes, i, k).status = 409
    /\ notes[j].status = "draft"
    /\ \A k \in validTypes : processCheck(notes, j, k) = Proceed

\* C11: a trigger whose process type is missing or not one of the four valid
\* ones is answered 400 whatever the note, and the request changes nothing:
\* no row, no status, no error message, no handler started.
C11_InvalidTypeRejected ==
  [][\A id \in Ids, k \in ProcessTypeInputs \ validTypes :
       /\ processCheck(notes, id, k) = Check(400, "Invalid process type")
       /\ \A r \in Reqs : ProcessStart(r, id, k) => UNCHANGED vars]_vars

\* a draft note and a note being processed, each refusing a trigger with a
\* missing and with an unknown process type
C11_Witness ==
  \E i, j \in DOMAIN notes :
    /\ notes[i].status = "draft" /\ notes[j].status = "processing"
    /\ \A id \in {i, j}, k \in {NULLSTR, "bogus"} :
         processCheck(notes, id, k).status = 400

\* C12: when the collaborator call of a run on note N fails, the failure
\* itself writes nothing; the handler then answers with N (if it still
\* exists) in status failed and a non-empty error message, with no row added
\* or removed and no child of its own.
C12_CollaboratorFailure ==
  [][\A r \in Reqs :
       /\ (req[r].pc = "llm" /\ req'[r].pc = "fail" /\ req[r].id \in DOMAIN notes) =>
            /\ notes' = notes /\ nextId' = nextId
            /\ req'[r].error \notin {NULLSTR, ""}
            /\ req'[r].childNoteId = NULL
       /\ (req[r].pc = "fail" /\ req'[r].pc = "idle") =>
            /\ DOMAIN notes' = DOMAIN notes /\ nextId' = nextId
            /\ req[r].childNoteId = NULL
            /\ req[r].id \in DOMAIN notes =>
                 /\ notes'[req[r].id].status = "failed"
                 /\ notes'[req[r].id].error_message = req[r].error
                 /\ notes'[req[r].id].error_message \notin {NULLSTR, ""}]_vars

\* a note left failed by a collaborator failure, with no child
C12_Witness ==
  /\ Quiet
  /\ \E i \in DOMAIN notes :
       /\ notes[i].status = "failed"
       /\ notes[i].error_message = "Claude API error"
       /\ \A c \in DOMAIN notes : notes[c].parent_id # i

\* C13: after every step, an item with a non-null error_message has status
\* failed; a step that takes an item into processing or complete leaves its
\* error_message null; and a step that gives an item a new non-null
\* error_message is a handler's catch writing status failed.
C13_ErrorOnlyWhenFailed ==
  [][/\ \A i \in DOMAIN notes' :
          notes'[i].error_message # NULLSTR => notes'[i].status = "failed"
     /\ \A i \in DOMAIN notes \cap DOMAIN notes' :
          /\ (notes'[i].status \in {"processing", "complete"}
                /\ notes'[i].status # notes[i].status) =>
               notes'[i].error_message = NULLSTR
          /\ (notes'[i].error_message # NULLSTR
                /\ notes'[i].error_message # notes[i].error_message) =>
               \E r \in Reqs : /\ req[r].pc = "fail" /\ req[r].id = i
                               /\ req'[r].pc = "idle"
                               /\ notes'[i].status = "failed"]_vars

\* a retry has taken a failed note (whose error was recorded) back into
\* processing with the error cleared, while another note is failed with its
\* error
C13_Witness ==
  /\ \E r \in Reqs :
       /\ req[r].op = "retry" /\ req[r].pc = "fetch"
       /\ req[r].id \in DOMAIN notes
       /\ notes[req[r].id].status = "processing"
       /\ notes[req[r].id].error_message = NULLSTR
  /\ \E j \in DOMAIN notes :
       notes[j].status = "failed" /\ notes[j].error_message # NULLSTR

RejectedStatus == {400, 404, 409}

\* the answer is a rejection and the table it leaves is the table it found
Unchanged(answer, st) == answer.status \in RejectedStatus => answer.notes = st

\* C14: whatever the request, a hierarchy handler that answers 400, 404 or
\* 409 leaves the table exactly as it found it, and a process or retry request
\* answered 400, 404 or 409 changes nothing at all.
C14_RejectionsChangeNothing ==
  [][/\ \A id \in Ids, parent_id \in ParentInputs \cup {UNDEF} :
          /\ \A name \in NameInputs :
               /\ parent_id # UNDEF =>
                    Unchanged(createFolder(notes, nextId, name, parent_id), notes)
               /\ Unchanged(updateFolder(notes, id, name, parent_id), notes)
          /\ Unchanged(deleteFolder(notes, id), notes)
          /\ Unchanged(deleteNote(notes, id), notes)
          /\ parent_id # UNDEF => Unchanged(moveItem(notes, id, parent_id), notes)
          /\ \A content \in NoteDocs \cup {NullContent} :
               /\ Unchanged(updateNote(notes, id, content), notes)
               /\ \A type \in TypeInputs :
                    parent_id # UNDEF =>
                      Unchanged(createNote(notes, nextId, parent_id, content, type), notes)
     /\ \A id \in Ids :
          /\ \A k \in ProcessTypeInputs :
               processCheck(notes, id, k).status \in RejectedStatus =>
                 \A r \in Reqs : ProcessStart(r, id, k) => UNCHANGED vars
          /\ retryCheck(notes, id).status \in RejectedStatus =>
               \A r \in Reqs : RetryStart(r, id) => UNCHANGED vars]_vars

\* a state in which requests of every rejected kind exist: a missing item
\* (404), a note addressed as a folder and a folder moved under its child
\* (400), a trigger on a note being processed (409)
C14_Witness ==
  \E f, g, n \in DOMAIN notes :
    /\ notes[f].item_type = "folder" /\ notes[g].item_type = "folder"
    /\ notes[g].parent_id = f /\ notes[n].item_type = "note"
    /\ moveItem(notes, f, g).status = 400
    /\ deleteFolder(notes, n).status = 400
    /\ notes[n].status = "processing"
    /\ processCheck(notes, n, "research").status = 409
    /\ retryCheck(notes, n).status = 400

\* C15: every item with a non-null parent_id references an existing item
\* whose item_type is folder.
C15_ParentIsFolder ==
  \A i \in DOMAIN notes :
    notes[i].parent_id # NULL =>
      /\ notes[i].parent_id \in DOMAIN notes
      /\ notes[notes[i].parent_id].item_type = "folder"

\* C15 as the code has it: after every step each non-null parent_id references
\* an existing item, the parent of a folder is a folder, and a step that gives
\* an existing item a new non-null parent gives it a folder; only a note
\* inserted under a note (by POST /notes or as the child of a run) has a
\* parent that is not a folder.
C15_ParentExists ==
  [][/\ \A i \in DOMAIN notes' :
          notes'[i].parent_id # NULL =>
            /\ notes'[i].parent_id \in DOMAIN notes'
            /\ notes'[notes'[i].parent_id].item_type # "folder" =>
                 notes'[i].item_type = "note"
     /\ \A i \in DOMAIN notes \cap DOMAIN notes' :
          (notes'[i].parent_id # notes[i].parent_id /\ notes'[i].parent_id # NULL) =>
            notes'[notes'[i].parent_id].item_type = "folder"]_vars

\* a folder holding a note that a run has given a child
C15_Witness ==
  \E f, n, c \in DOMAIN notes :
    /\ notes[f].item_type = "folder"
    /\ notes[n].parent_id = f /\ notes[n].item_type = "note"
    /\ notes[c].parent_id = n /\ notes[c].type = "ai"

\* C16: every folder has null content, null process_type and no status,
\* whatever requests have been made, content updates, triggers and retries
\* addressed to the folder's id included.
C16_FoldersBare ==
  \A f \in Folders(notes) :
    /\ notes[f].content = NullContent
    /\ notes[f].process_type = NULLSTR
    /\ notes[f].status = NULLSTR

\* a string with a non-whitespace character and at most 255 characters
GoodName(n) == n.tag = "str" /\ n.core > 0 /\ n.lead + n.core <= MaxNameLen

\* C17: every folder's stored name is non-empty after trimming and at most
\* 255 characters long; create-folder answers 400 and inserts nothing for a
\* missing, empty, whitespace-only or over-long name; and whatever a folder
\* update is given, the folders it leaves all have such a name.
C17_FolderNames ==
  /\ \A f \in Folders(notes) : GoodName(notes[f].name)
  /\ \A name \in NameInputs, parent_id \in ParentInputs :
       ~GoodName(NameTrim(name)) =>
         Rejected(createFolder(notes, nextId, name, parent_id), notes)
  /\ \A id \in Ids, name \in NameInputs, parent_id \in ParentInputs \cup {UNDEF} :
       LET after == updateFolder(notes, id, name, parent_id).notes IN
         \A f \in Folders(after) : GoodName(after[f].name)

\* a folder with a name of the greatest length allowed, under another folder:
\* renaming it to an over-long name is refused, and an update to the root with
\* a whitespace-only name moves it and keeps its name
C17_Witness ==
  \E f, g \in Folders(notes) :
    /\ notes[f].parent_id = g
    /\ NameLength(notes[f].name) = MaxNameLen
    /\ updateFolder(notes, f, Str(0, MaxNameLen + 1), UNDEF).status = 400
    /\ LET a == updateFolder(notes, f, Str(1, 0), NULL) IN
         /\ a.status = 200 /\ a.notes[f].parent_id = NULL
         /\ a.notes[f].name = notes[f].name

\* the sequence of ids lists each item of `set` once and nothing else
Lists(rows, set) ==
  /\ {rows[k] : k \in 1..Len(rows)} = set
  /\ \A k, l \in 1..Len(rows) : rows[k] = rows[l] => k = l

\* in the sequence of ids every folder precedes every other item, and two
\* items that are both folders or both not are in ascending created_at order
FoldersFirst(st, rows) ==
  \A k, l \in 1..Len(rows) :
    k < l =>
      LET a == st[rows[k]]  b == st[rows[l]] IN
        /\ ~(a.item_type # "folder" /\ b.item_type = "folder")
        /\ ((a.item_type = "folder") = (b.item_type = "folder")) =>
             a.created_at < b.created_at

\* C18: list-contents of a folder F answers with exactly the items whose
\* parent_id is F, every folder before every note, and items of the same
\* class in ascending creation time.
C18_ContentsOrder ==
  \A f \in Folders(notes) :
    LET a == folderContents(notes, f) IN
      /\ a.status = 200
      /\ Lists(a.rows, {i \in DOMAIN notes : notes[i].parent_id = f})
      /\ FoldersFirst(notes, a.rows)

\* C19: for the flat list of a forest, the displayed tree with every node
\* expanded shows each item exactly once, under its parent.
C19_TreeComplete ==
  LET shown == NoteTree(notes, getAll(notes)) IN
    /\ Lists([k \in 1..Len(shown) |-> shown[k].id], DOMAIN notes)
    /\ \A k \in 1..Len(shown) : shown[k].under = notes[shown[k].id].parent_id

\* the orders in which a flat list can hold the items
Orders(set) ==
  {s \in [1..Cardinality(set) -> set] : \A k, l \in 1..Cardinality(set) : s[k] = s[l] => k = l}

RECURSIVE GroupsSorted(_, _, _)
\* the nodes are the items whose parent is p, folders first and each class by
\* ascending created_at, and so is the group under each of them
GroupsSorted(st, nodes, p) ==
  LET ids == [k \in 1..Len(nodes) |-> nodes[k].id] IN
    /\ Lists(ids, {i \in DOMAIN st : st[i].parent_id = p})
    /\ FoldersFirst(st, ids)
    /\ \A k \in 1..Len(nodes) : GroupsSorted(st, nodes[k]._children, nodes[k].id)

\* C20: whatever the order of the flat list, every sibling group of the tree
\* built from it, the root group included, holds the items of that parent with
\* all folders before all notes and each class in ascending created_at order.
C20_GroupsSorted ==
  \A items \in Orders(DOMAIN notes) :
    LET tree == buildTree(notes, items) IN
      /\ GroupsSorted(notes, [k \in 1..Len(tree) |-> tree[k].item], NULL)
      /\ \A k \in 1..Len(tree) : tree[k].children = tree[k].item._children

\* a folder created after a note of the same group comes before it in the
\* tree, and a group below the root is not empty
C20_Witness ==
  LET tree == buildTree(notes, getAll(notes)) IN
    \E k, l \in 1..Len(tree) :
      /\ k < l /\ tree[k].item.id > tree[l].item.id
      /\ notes[tree[k].item.id].item_type = "folder"
      /\ notes[tree[l].item.id].item_type = "note"
      /\ tree[k].children # <<>>

\* the orders in which the random uuids of the ids can stand
UuidOrders == Orders(TreeIds)

\* C21: get-subtree of an existing item X answers with X and all of X's
\* descendants, each once, and no row comes before a row of smaller depth.
C21_SubtreeByDepth ==
  \A x \in DOMAIN notes, uuid \in UuidOrders :
    LET a == getTreeRoute(notes, x, uuid) IN
      /\ a.status = 200
      /\ Lists([k \in 1..Len(a.rows) |-> a.rows[k].id], {x} \cup Descendants(notes, x))
      /\ \A k, l \in 1..Len(a.rows) : k < l => a.rows[k].depth <= a.rows[l].depth


\* C22: an item produced by processing is never the source of a processing
\* run: no handler slot that passed the trigger or retry checks serves an item
\* of type 'ai'.
C22_NeverSource ==
  \A r \in Reqs :
    req[r].pc # "idle" /\ req[r].id \in DOMAIN notes
      => notes[req[r].id].type # "ai"


OnlyHeadingsAndParagraphs(doc) ==
  /\ doc.type = "doc"
  /\ \A k \in 1..Len(doc.content) : doc.content[k].type \in {"heading", "paragraph"}

\* C23: for every document of heading and paragraph blocks only, extracting
\* its text and converting the text back gives as many blocks as the document
\* has, the i-th carrying the text (traverse) of the i-th block of the document.
C23_RoundTrip ==
  \A i \in DOMAIN notes :
    LET doc == notes[i].content IN
      OnlyHeadingsAndParagraphs(doc) =>
        LET out == markdownToTiptap(extractTextFromTiptap(doc)).content IN
          /\ Len(out) = Len(doc.content)
          /\ \A k \in 1..Len(out) : Traverse(out[k]) = Traverse(doc.content[k])


\* what a line of markdown is, and the text it holds
LineKind(line) ==
  IF Trim(line) = <<>> THEN "blank"
  ELSE IF StartsWith(line, <<"#", " ">>) THEN "h1"
  ELSE IF StartsWith(line, <<"#", "#", " ">>) THEN "h2"
  ELSE IF StartsWith(line, <<"#", "#", "#", " ">>) THEN "h3"
  ELSE IF IsBullet(line) THEN "bulletList"
  ELSE IF IsNumbered(line) THEN "orderedList"
  ELSE "paragraph"

LineText(line) ==
  CASE LineKind(line) = "h1" -> Substring(line, 2)
    [] LineKind(line) = "h2" -> Substring(line, 3)
    [] LineKind(line) = "h3" -> Substring(line, 4)
    [] LineKind(line) = "bulletList" -> Substring(line, 2)
    [] LineKind(line) = "orderedList" -> StripNumber(line)
    [] OTHER -> line

\* line i opens a block: it is not blank, and it is not a list line that
\* follows a line of the same list kind
Opens(lines, i) ==
  /\ LineKind(lines[i]) # "blank"
  /\ \/ LineKind(lines[i]) \notin {"bulletList", "orderedList"}
     \/ i = 1
     \/ LineKind(lines[i - 1]) # LineKind(lines[i])

\* the block line i belongs to
BlockOf(lines, i) == Cardinality({j \in 1..i : Opens(lines, j)})

\* `blocks` is the conversion of `lines`: one block per opening line, in
\* order, every line of a kind in a block of that kind, with its text
Faithful(lines, blocks) ==
  /\ Len(blocks) = BlockOf(lines, Len(lines))
  /\ \A b \in 1..Len(blocks) :
       LET in == {i \in 1..Len(lines) :
                    LineKind(lines[i]) # "blank" /\ BlockOf(lines, i) = b}
           first == CHOOSE i \in in : \A j \in in : i <= j
           kind == LineKind(lines[first])
       IN /\ in # {}
          /\ CASE kind = "h1" -> blocks[b] = Heading(1, LineText(lines[first]))
               [] kind = "h2" -> blocks[b] = Heading(2, LineText(lines[first]))
               [] kind = "h3" -> blocks[b] = Heading(3, LineText(lines[first]))
               [] kind = "paragraph" -> blocks[b] = Paragraph(lines[first])
               [] OTHER ->
                    /\ blocks[b].type = kind
                    /\ Len(blocks[b].content) = Cardinality(in)
                    /\ \A i \in in :
                         blocks[b].content[i - first + 1] = ListItem(LineText(lines[i]))

\* C28: the child of a run holds the conversion of the collaborator's answer
\* with no line lost or duplicated: every non-blank line gives its text to
\* exactly one block, blocks follow the order of the lines, each maximal run
\* of adjacent bullet lines is one bulletList and of adjacent numbered lines
\* one orderedList with one listItem per line, '# ', '## ', '### ' lines are
\* headings of level 1, 2, 3, and every other non-blank line is a paragraph.
C28_EveryLineOnce ==
  \A r \in Reqs :
    req[r].pc = "complete" /\ req[r].childNoteId \in DOMAIN notes
      => Faithful(Split(req[r].result), notes[req[r].childNoteId].content.content)

\* the answer held two adjacent bullet lines and a plain line
C28_Witness ==
  \E r \in Reqs :
    /\ req[r].pc = "complete"
    /\ req[r].result = <<"-", " ", "a", "\n", "*", " ", "b", "\n", "p">>
    /\ Len(notes[req[r].childNoteId].content.content) = 2


\* item i is in status processing and no handler holds it
Stuck(st, slots, i) ==
  /\ st[i].status = "processing"
  /\ \A r \in Reqs : slots[r].id # i

\* C24: a note left in status processing by a run that stopped stays so under
\* every trigger and retry request: each trigger of a valid type is answered
\* 409, each retry 400, no handler takes the note up, and while the note
\* exists its status is processing.
C24_StuckStays ==
  [][\A i \in DOMAIN notes :
       Stuck(notes, req, i) =>
         /\ \A processType \in validTypes :
              processCheck(notes, i, processType)
                = Check(409, "Note is already being processed")
         /\ retryCheck(notes, i) = Check(400, "Can only retry failed notes")
         /\ i \in DOMAIN notes' =>
              /\ notes'[i].status = "processing"
              /\ Stuck(notes', req', i)]_vars

\* a note stuck in processing while another run has since completed
C24_Witness ==
  \E i, j \in DOMAIN notes :
    /\ Stuck(notes, req, i)
    /\ notes[j].status = "complete" /\ j > i /\ notes[j].type = "user"


\* C25: a successful move of item x to parent p changes x's parent_id and
\* nothing else: the other columns of x, and every column of every other
\* item, x's descendants included, are as before, and no row comes or goes.
C25_MoveFrame ==
  \A x \in TreeIds, p \in TreeParentInputs :
    LET a == moveItem(notes, x, p) IN
      a.status = 200 =>
        /\ DOMAIN a.notes = DOMAIN notes
        /\ a.notes[x].parent_id = p
        /\ \A i \in DOMAIN notes : \A column \in DOMAIN notes[i] :
             \/ i = x /\ column = "parent_id"
             \/ a.notes[i][column] = notes[i][column]

\* an item with a child sits under a folder created after it, where only a
\* move can have put it, and can be moved on to the root
C25_Witness ==
  \E x, c \in DOMAIN notes :
    /\ notes[c].parent_id = x
    /\ notes[x].parent_id > x
    /\ notes[x].item_type = "note"
    /\ moveItem(notes, x, NULL).status = 200


\* the walk from p makes maxDepth hops and is still at an item: p has that
\* many ancestors
WalkRunsOut(st, p) ==
  LET above == Ancestors(st, p) IN
    Cardinality({a \in DOMAIN st : a \in above}) >= maxDepth

\* C26: when the proposed parent p has maxDepth or more ancestors, so that
\* the walk from p makes maxDepth hops and is still at an item, the cycle
\* check reports circular for every folder x, and both handlers that move a
\* folder answer 400 and leave the table as it was.
C26_FailsClosed ==
  \A x, p \in DeepIds \cap DOMAIN notes :
    x # p /\ WalkRunsOut(notes, p) =>
      /\ checkCircularReference(notes, x, p)
      /\ Rejected(moveItem(notes, x, p), notes)
      /\ Rejected(updateFolder(notes, x, UndefName, p), notes)

\* a root folder that is no ancestor of p is refused all the same
C26_Witness ==
  \E x, p \in DeepIds \cap DOMAIN notes :
    /\ x # p /\ x \notin Ancestors(notes, p)
    /\ notes[x].parent_id = NULL
    /\ WalkRunsOut(notes, p)
    /\ moveItem(notes, x, p).error = "Cannot create circular folder structure"


\* C27 as stated: no note or ai-note is on the ancestor chain of any item,
\* every ancestor is a folder.
C27_NotesAreLeaves ==
  \A i \in DOMAIN notes : \A a \in Ancestors(notes, i) : notes[a].item_type = "folder"

\* C27: no note or ai-note is on the ancestor chain of a folder: what lies
\* below a note is notes only, so a note moved into a folder is never moved
\* below itself.
C27_FoldersUnderFolders ==
  \A f \in Folders(notes) : \A a \in Ancestors(notes, f) : notes[a].item_type = "folder"

\* a note that has the child of its run below it lies in a folder and can be
\* moved out of it
C27_Witness ==
  \E c, n, f \in DOMAIN notes :
    /\ notes[c].type = "ai" /\ notes[c].parent_id = n
    /\ notes[n].item_type = "note" /\ notes[n].parent_id = f
    /\ notes[f].item_type = "folder"
    /\ moveItem(notes, n, NULL).status = 200


\* the text extracted from the content of item i is blank
BlankText(st, i) ==
  /\ i \in DOMAIN st
  /\ ~ExtractThrows(st[i].content)
  /\ Trim(extractTextFromTiptap(st[i].content)) = <<>>

\* C29: a run on a note whose extracted text is blank never reaches the
\* collaborator call and creates no child; it leaves processNote with the
\* error 'Note has no content to process', and when its handler answers the
\* note has status failed with that error as error_message.
C29_BlankFailsEarly ==
  [][\A r \in Reqs :
       BlankText(notes, req[r].id) =>
         /\ req'[r].pc \notin {"llm", "complete"}
         /\ \A c \in DOMAIN notes' \ DOMAIN notes : notes'[c].parent_id # req[r].id
         /\ req[r].pc = "fetch" /\ req'[r].pc # "fetch" =>
              /\ req'[r].pc = "fail"
              /\ req'[r].error = "Note has no content to process"
         /\ req[r].pc = "fail" /\ req'[r].pc = "idle" /\ req[r].id \in DOMAIN notes' =>
              /\ notes'[req[r].id].status = "failed"
              /\ notes'[req[r].id].error_message = "Note has no content to process"]_vars

\* the run on a note of one empty paragraph has been answered: the note is
\* failed for its empty content and has no child
C29_Witness ==
  /\ Quiet
  /\ BlankText(notes, Watched)
  /\ notes[Watched].content = Doc(<<EmptyParagraph>>)
  /\ notes[Watched].status = "failed"
  /\ notes[Watched].error_message = "Note has no content to process"
  /\ DOMAIN notes = {Watched}


\* the client's list shows item i with one of the given statuses
Shows(i, statuses) ==
  i \in DOMAIN client.items /\ client.items[i].status \in statuses

\* C30: the polling timer is set exactly when the list fetched last holds a
\* non-folder item with status processing, and a note the list shows as
\* processing is in the end shown as complete or failed.
C30_Polling ==
  /\ [](client.interval <=> hasProcessingNotes(client.items))
  /\ Shows(Watched, {"processing"}) ~> Shows(Watched, {"complete", "failed"})


\* C31: with every delete made from the browser and followed by its fetch of
\* the list, the selected note is null or an item of the store.
C31_SelectionExists ==
  client.selectedNote = NULL \/ client.selectedNote \in DOMAIN notes


\* C32: with move handlers that interleave between their validating reads
\* and their UPDATE, no item is among its own ancestors.
C32_ForestUnderRaces == \A i \in DOMAIN notes : i \notin Ancestors(notes, i)

C33_NoFalseAlarm ==
  \A x, p \in DeepIds \cap DOMAIN notes :
    LET above == Ancestors(notes, p) IN
      /\ x # p /\ x \notin above
      /\ Cardinality({a \in DOMAIN notes : a \in above}) + 1 <= maxDepth
      => /\ ~checkCircularReference(notes, x, p)
         /\ moveItem(notes, x, p).status = 200


\* C35: a handler that leaves its note in status failed has added no child
\* to it: when the catch block has written failed, the child of the run, if
\* one was inserted, is not in the table.
C35_FailedRunHasNoChild ==
  [][\A r \in Reqs :
       /\ req[r].pc = "fail" /\ req'[r].pc = "idle"
       /\ req[r].id \in DOMAIN notes'
       /\ notes'[req[r].id].status = "failed"
       => req[r].childNoteId \notin DOMAIN notes']_vars


\* the items that lie on a cycle of the parent_id relation
OnCycle(st) == {i \in DOMAIN st : i \in Ancestors(st, i)}

\* C36: with handlers interleaved, every ancestor of a folder is a folder, and
\* the UPDATE of a move of an item that is not a folder (for which no cycle
\* check was run) puts no item on a cycle that was not on one before.
C36_FolderAncestors ==
  /\ [](\A f \in Folders(notes) : \A a \in Ancestors(notes, f) :
          notes[a].item_type = "folder")
  /\ [][\A r \in Reqs :
          /\ req[r].pc = "update" /\ req'[r].pc = "idle"
          /\ req[r].id \in DOMAIN notes
          /\ notes[req[r].id].item_type # "folder"
          => OnCycle(notes') \subseteq OnCycle(notes)]_vars

\* the note created first, at the root of an empty table, has been moved
\* under a folder that lies in another folder
C36_Witness ==
  /\ DOMAIN notes = {1, 2, 3}
  /\ notes[1].item_type = "note" /\ notes[1].parent_id = 3
  /\ notes[3].item_type = "folder" /\ notes[3].parent_id = 2
  /\ notes[2].item_type = "folder"


RECURSIVE LookupsOffByOne(_, _, _, _)
\* a loop that still runs when depth has reached maxDepth
LookupsOffByOne(st, folderId, currentId, depth) ==
  IF /\ currentId # NULL /\ depth <= maxDepth
     /\ currentId # folderId
     /\ currentId \in DOMAIN st
    THEN 1 + LookupsOffByOne(st, folderId, st[currentId].parent_id, depth + 1)
    ELSE IF currentId # NULL /\ depth <= maxDepth /\ currentId # folderId THEN 1 ELSE 0

RECURSIVE Lookups(_, _, _, _)
\* the number of SELECT parent_id queries the loop of checkCircularReference
\* sends from (currentId, depth) on: one in every turn that does not return
\* at currentId === folderId, the last one being the turn that finds no row
Lookups(st, folderId, currentId, depth) ==
  IF /\ currentId # NULL /\ depth < maxDepth
     /\ currentId # folderId
     /\ currentId \in DOMAIN st
    THEN 1 + Lookups(st, folderId, st[currentId].parent_id, depth + 1)
    ELSE IF currentId # NULL /\ depth < maxDepth /\ currentId # folderId THEN 1 ELSE 0

\* the rows a walk finds when row d was deleted after the row below it was
\* read: d is gone, the parent_id read before still names it
Without(st, d) == [i \in DOMAIN st \ {d} |-> st[i]]

\* C37: checkCircularReference sends at most maxDepth parent look-ups, for
\* every folder and every target, existing or not, on every table reached
\* with handlers interleaved (tables with cycles among them) and on every
\* such table with one row deleted under the walk.
C37_WalkBounded ==
  \A folderId \in Ids, targetParentId \in Ids \cup {NULL} :
    /\ Lookups(notes, folderId, targetParentId, 0) <= maxDepth
    /\ \A d \in DOMAIN notes :
         Lookups(Without(notes, d), folderId, targetParentId, 0) <= maxDepth

\* two folders on a cycle and a third folder off it: the walk for a move of
\* the third under the cycle uses all maxDepth look-ups, and with one folder
\* of the cycle deleted under it the walk ends at the missing row
C37_Witness ==
  \E x, a, b \in Folders(notes) :
    /\ x \notin OnCycle(notes) /\ x \notin {a, b}
    /\ notes[a].parent_id = b /\ notes[b].parent_id = a
    /\ Lookups(notes, x, a, 0) = maxDepth
    /\ checkCircularReference(notes, x, a)
    /\ Lookups(Without(notes, b), x, a, 0) = 2
    /\ ~checkCircularReference(Without(notes, b), x, a)

====
